---- MODULE Spec2Model ----
(***************************************************************************)
(* Model of src/train.py: the MLPBinaryClassifier (construction, forward,  *)
(* backward, update_weights, train, predict) and the numerical helpers it  *)
(* calls.                                                                  *)
(*                                                                         *)
(* Numbers.  numpy float64 values are represented in fixed point: the      *)
(* integer v stands for v / SCALE.  exp and log are tabulated on that      *)
(* grid, products and quotients are rounded to the nearest.  A tensor is a    *)
(* sequence of rows, each row a sequence of numbers; its shape is          *)
(* <<rows, columns>>.  numpy's global random state is the variable rng,    *)
(* stepped by a small linear congruential generator: every draw the code   *)
(* makes (randn for the weights, rand for the dropout masks) consumes it.  *)
(***************************************************************************)
EXTENDS Integers, Sequences, FiniteSets, TLC

VARIABLES model, twin, rng, pc, exc, args, epoch, activations, dropout_masks,
          deltas, grads_w, grads_b, val_loss, labels, calls

vars == <<model, twin, rng, pc, exc, args, epoch, activations, dropout_masks,
          deltas, grads_w, grads_b, val_loss, labels, calls>>

(***************************************************************************)
(* Bounds of the model.                                                    *)
(***************************************************************************)
MaxHidden == 3
MaxBatch == 2
MaxEpochs == 2
MaxCalls == 2

(***************************************************************************)
(* Representation.                                                         *)
(***************************************************************************)
SCALE == 16
\* None (an absent tensor, an absent argument, an unbound local) is the empty
\* sequence; a present value v of an optional is <<v>>.  A float that may be
\* nan is <<v>> when finite and NaN otherwise.
None == <<>>
NaN == <<>>
Some(v) == <<v>>
\* TRUE, once its argument has been evaluated: the loops below use it to
\* compute their accumulators at every iteration rather than at the end
Done(v) == v = v
NoException == "none"

Abs(a) == IF a < 0 THEN -a ELSE a
\* a / b rounded to the nearest integer, halves away from zero
Round(a, b) ==
    IF (a < 0) = (b < 0) THEN (2 * Abs(a) + Abs(b)) \div (2 * Abs(b))
    ELSE -((2 * Abs(a) + Abs(b)) \div (2 * Abs(b)))
FMul(a, b) == Round(a * b, SCALE)
One == SCALE

RECURSIVE SumSeq(_)
SumSeq(s) == IF s = <<>> THEN 0 ELSE Head(s) + SumSeq(Tail(s))

\* Tensors are built as explicit tuples, row by row.
Vec(n, e(_)) == [k \in 1..n |-> e(k)] \o <<>>
Mat(rows, cols, e(_, _)) == [r \in 1..rows |-> [c \in 1..cols |-> e(r, c)] \o <<>>] \o <<>>

Rows(M) == Len(M)
Cols(M) == Len(M[1])
Shape(M) == <<Rows(M), Cols(M)>>
Map1(f(_), M) == Mat(Rows(M), Cols(M), LAMBDA r, c : f(M[r][c]))
Map2(f(_, _), A, B) == Mat(Rows(A), Cols(A), LAMBDA r, c : f(A[r][c], B[r][c]))
Transpose(M) == Mat(Cols(M), Rows(M), LAMBDA r, c : M[c][r])
Dot(A, B) == Mat(Rows(A), Cols(B),
                 LAMBDA r, c : SumSeq(Vec(Rows(B), LAMBDA k : FMul(A[r][k], B[k][c]))))
AddRow(Z, b) == Mat(Rows(Z), Cols(Z), LAMBDA r, c : Z[r][c] + b[1][c])
SumAxis0(M) == Mat(1, Cols(M), LAMBDA r, c : SumSeq(Vec(Rows(M), LAMBDA k : M[k][c])))
Zeros(rows, cols) == Mat(rows, cols, LAMBDA r, c : 0)
Flatten(M) == Vec(Rows(M) * Cols(M),
                  LAMBDA k : M[((k - 1) \div Cols(M)) + 1][((k - 1) % Cols(M)) + 1])

(***************************************************************************)
(* numpy's global random state.                                            *)
(***************************************************************************)
RngModulus == 16
RngStep(s) == (5 * s + 3) % RngModulus
RECURSIVE RngAdvance(_, _)
RngAdvance(s, k) == IF k = 0 THEN s ELSE RngAdvance(RngStep(s), k - 1)
\* np.random.randn(rows, cols) * 0.01: non-zero values of either sign, at the
\* scale of the grid
RandnSmall(s) == <<12, 7, -7, 14>>[(s \div 4) + 1]
RandnMatrix(s, rows, cols) ==
    Mat(rows, cols, LAMBDA r, c : RandnSmall(RngAdvance(s, (r - 1) * cols + c)))
\* np.random.rand(rows, cols): uniform on [0, 1)
RandUniform(s) == (s * SCALE) \div RngModulus
RandMatrix(s, rows, cols) ==
    Mat(rows, cols, LAMBDA r, c : RandUniform(RngAdvance(s, (r - 1) * cols + c)))

(***************************************************************************)
(* Activation functions and their derivatives (lines 7-23).                *)
(***************************************************************************)
SigmoidTable ==
    <<8, 8, 8, 9, 9, 9, 9, 10, 10, 10, 10, 11, 11, 11, 11, 11, 12, 12, 12, 12, 12, 13, 13, 13, 13, 13, 13, 14, 14, 14, 14, 14, 14, 14, 14, 14, 14, 15, 15, 15, 15, 15, 15, 15, 15, 15, 15, 15, 15, 15, 15, 15, 15, 15, 15>>
sigmoid(x) ==
    LET pos(z) == IF z < Len(SigmoidTable) THEN SigmoidTable[z + 1] ELSE One
    IN  IF x >= 0 THEN pos(x) ELSE One - pos(-x)
sigmoidDerivative(x) == FMul(x, One - x)
relu(x) == IF x > 0 THEN x ELSE 0
reluDerivative(x) == IF x > 0 THEN One ELSE 0

ACTIVATIONS == {"sigmoid", "relu"}
ApplyFn(name, M) ==
    IF name = "sigmoid" THEN Map1(sigmoid, M) ELSE Map1(relu, M)
ApplyDeriv(name, M) ==
    IF name = "sigmoid" THEN Map1(sigmoidDerivative, M) ELSE Map1(reluDerivative, M)

(***************************************************************************)
(* Loss and regulariser (lines 25-33).  eps is the smallest positive       *)
(* quantity of the representation, 1 / SCALE^2.                            *)
(***************************************************************************)
eps == 1
\* SCALE * ln(p / SCALE + eps / SCALE^2) for p = 0 .. SCALE
LogTable == <<-89, -43, -33, -26, -22, -18, -16, -13, -11, -9, -7, -6, -5, -3, -2, -1, 0>>
Ln2 == 11
RECURSIVE LogEps(_)
LogEps(p) == IF p < 0 THEN NaN
             ELSE IF p <= SCALE THEN Some(LogTable[p + 1])
             ELSE Some(LogEps(p \div 2)[1] + Ln2)

binary_cross_entropy(y_true, y_pred) ==
    LET yt == Flatten(y_true)
        yp == Flatten(y_pred)
        n == Len(yt)
        la(k) == LogEps(yp[k])
        lb(k) == LogEps(One - yp[k])
        bad == \E k \in 1..n : la(k) = NaN \/ lb(k) = NaN
    IN  IF bad THEN NaN
        ELSE Some(-Round(SumSeq(Vec(n, LAMBDA k : FMul(yt[k], la(k)[1])
                                                  + FMul(One - yt[k], lb(k)[1]))), n))

bceDerivScalar(yt, yp) == Round((yp - yt) * SCALE * SCALE, yp * (One - yp) + eps)
binary_cross_entropyDerivative(y_true, y_pred) == Map2(bceDerivScalar, y_true, y_pred)

SumSquares(w) == SumSeq(Flatten(Map1(LAMBDA x : FMul(x, x), w)))
l2_penalty(weights, alpha) ==
    FMul(alpha, SumSeq(Vec(Len(weights), LAMBDA i : SumSquares(weights[i]))))

AddLoss(a, b) == IF a = NaN THEN NaN ELSE Some(a[1] + b)

(***************************************************************************)
(* class MLPBinaryClassifier.  A method is an operator on the object       *)
(* (self) that returns the object as the call leaves it, the value it      *)
(* returns, the random state it leaves and the exception it raised, if     *)
(* any.                                                                    *)
(***************************************************************************)
Result(self, ret, r, e) == [self |-> self, ret |-> ret, rng |-> r, exc |-> e]

\* __init__, lines 39-51: the fields before _initialize_network runs
NewObject(cfg) ==
    [input_size |-> cfg.input_size,
     hidden_layers |-> cfg.hidden_layers,
     activations |-> cfg.activations,
     learning_rate |-> cfg.learning_rate,
     epochs |-> cfg.epochs,
     l2_lambda |-> cfg.l2_lambda,
     dropout_rates |-> IF cfg.dropout_rates # None /\ cfg.dropout_rates[1] # <<>>
                       THEN cfg.dropout_rates[1]
                       ELSE Vec(Len(cfg.hidden_layers), LAMBDA i : 0),
     weights |-> <<>>,
     biases |-> <<>>,
     activation_funcs |-> <<>>,
     activation_derivatives |-> <<>>,
     train_losses |-> <<>>,
     val_losses |-> <<>>]

layer_sizes(self) == <<self.input_size>> \o self.hidden_layers \o <<1>>

\* the loop of lines 60-66, from layer i on
RECURSIVE initialize_layers(_, _, _)
initialize_layers(self, r, i) ==
    IF Done(self) /\ i > Len(layer_sizes(self)) - 1 THEN Result(self, None, r, NoException)
    ELSE LET rows == layer_sizes(self)[i]
             cols == layer_sizes(self)[i + 1]
             s1 == [self EXCEPT !.weights = Append(@, RandnMatrix(r, rows, cols)),
                                !.biases = Append(@, Zeros(1, cols))]
             r1 == RngAdvance(r, rows * cols)
             name == self.activations[i]
         IN  IF name \notin ACTIVATIONS THEN Result(s1, name, r1, "KeyError")
             ELSE initialize_layers(
                      [s1 EXCEPT !.activation_funcs = Append(@, name),
                                 !.activation_derivatives = Append(@, name)],
                      r1, i + 1)

\* a variant that counts the activations against the layer sizes, not the layers
initialize_network_off_by_one(self, r) ==
    IF Len(self.activations) # Len(layer_sizes(self))
    THEN Result(self, None, r, "ValueError")
    ELSE initialize_layers(self, r, 1)

\* lines 55-66
initialize_network(self, r) ==
    IF Len(self.activations) # Len(layer_sizes(self)) - 1
    THEN Result(self, None, r, "ValueError")
    ELSE initialize_layers(self, r, 1)

\* a variant that records a second draw, not the mask it applied
dropout_redrawn(A, rate, r) ==
    LET mask == Map1(LAMBDA u : IF u > rate THEN One ELSE 0, RandMatrix(r, Rows(A), Cols(A)))
        drawn == Map1(LAMBDA u : IF u > rate THEN One ELSE 0,
                      RandMatrix(RngAdvance(r, Rows(A) * Cols(A)), Rows(A), Cols(A)))
    IN  <<Map2(LAMBDA x, m : Round(FMul(x, m) * SCALE, One - rate), A, mask),
          drawn,
          RngAdvance(r, 2 * Rows(A) * Cols(A))>>

\* lines 81-84: the mask drawn for A, and A masked and rescaled
dropout(A, rate, r) ==
    LET mask == Map1(LAMBDA u : IF u > rate THEN One ELSE 0, RandMatrix(r, Rows(A), Cols(A)))
    IN  <<Map2(LAMBDA x, m : Round(FMul(x, m) * SCALE, One - rate), A, mask),
          mask,
          RngAdvance(r, Rows(A) * Cols(A))>>

\* one layer of forward's loop, lines 75-90: <<A, mask, random state>>
forward_layer(self, A_prev, training, i, r) ==
    IF training /\ i <= Len(self.dropout_rates) /\ self.dropout_rates[i] > 0
    THEN dropout(ApplyFn(self.activation_funcs[i],
                         AddRow(Dot(A_prev, self.weights[i]), self.biases[i])),
                 self.dropout_rates[i], r)
    ELSE <<ApplyFn(self.activation_funcs[i],
                   AddRow(Dot(A_prev, self.weights[i]), self.biases[i])), None, r>>

\* a variant that records masks for the hidden layers only
forward_append_hidden_only(self, training, i, acts, masks, step) ==
    <<Append(acts, step[1]),
      IF i <= Len(self.hidden_layers) THEN Append(masks, step[2]) ELSE masks,
      step[3]>>

\* lines 84-90: the layer's mask and activation join the cache
forward_append(self, training, i, acts, masks, step) ==
    <<Append(acts, step[1]), Append(masks, step[2]), step[3]>>

RECURSIVE forward_loop(_, _, _, _)
forward_loop(self, training, i, st) ==
    IF Done(st) /\ i > Len(self.weights)
    THEN Result(self, <<st[1], st[2]>>, st[3], NoException)
    ELSE forward_loop(self, training, i + 1,
                      forward_append(self, training, i, st[1], st[2],
                          forward_layer(self, st[1][Len(st[1])], training, i, st[3])))

\* a variant that accumulates the first layer's output into its bias
forward_into_bias(self, X, training, r) ==
    LET f == forward_loop(self, training, 1, <<<<X>>, <<>>, r>>)
    IN  [f EXCEPT !.self.biases[1] = Map2(LAMBDA b, z : b + z, @, SumAxis0(f.ret[1][2]))]

\* lines 69-92
forward(self, X, training, r) == forward_loop(self, training, 1, <<<<X>>, <<>>, r>>)

\* line 105-107: the delta handed to the layer below layer i
propagate(self, acts, masks, i, delta) ==
    IF masks[i - 1] # None
    THEN Map2(FMul, Map2(FMul, Dot(delta, Transpose(self.weights[i])),
                         ApplyDeriv(self.activation_derivatives[i - 1], acts[i])),
              masks[i - 1])
    ELSE Map2(FMul, Dot(delta, Transpose(self.weights[i])),
              ApplyDeriv(self.activation_derivatives[i - 1], acts[i]))

\* backward's loop, lines 101-107, at layer i with the current delta;
\* st is <<grads_w, grads_b, the delta used at each layer, from layer i + 1 on>>
RECURSIVE backward_loop(_, _, _, _, _, _)
backward_loop(self, acts, masks, i, delta, st) ==
    IF Done(<<delta, st>>) /\ i < 1 THEN st
    ELSE backward_loop(self, acts, masks, i - 1,
                       IF i > 1 THEN propagate(self, acts, masks, i, delta) ELSE delta,
                       << <<Dot(Transpose(acts[i]), delta)>> \o st[1],
                          <<SumAxis0(delta)>> \o st[2],
                          <<delta>> \o st[3] >>)

\* a variant that appends each layer's gradients instead of inserting them
\* at the front
backward_appending(self, acts, y, masks) ==
    LET st == backward_loop(self, acts, masks, Len(self.weights),
                            Map2(FMul, binary_cross_entropyDerivative(y, acts[Len(acts)]),
                                 ApplyDeriv(self.activation_derivatives[Len(self.activation_derivatives)],
                                            acts[Len(acts)])),
                            <<<<>>, <<>>, <<>>>>)
        Reverse(q) == Vec(Len(q), LAMBDA k : q[Len(q) + 1 - k])
    IN  Result(self, <<Reverse(st[1]), Reverse(st[2]), st[3]>>, None, NoException)

\* lines 95-109
backward(self, acts, y, masks) ==
    Result(self,
           backward_loop(self, acts, masks, Len(self.weights),
                         Map2(FMul, binary_cross_entropyDerivative(y, acts[Len(acts)]),
                              ApplyDeriv(self.activation_derivatives[Len(self.activation_derivatives)],
                                         acts[Len(acts)])),
                         <<<<>>, <<>>, <<>>>>),
           None, NoException)

\* numpy's in-place a -= lr * g: g is broadcast into a's shape, or ValueError
CanBroadcastInto(g, a) == Rows(g) \in {1, Rows(a)} /\ Cols(g) \in {1, Cols(a)}
SubScaled(a, lr, g) ==
    Mat(Rows(a), Cols(a), LAMBDA r, c :
        a[r][c] - FMul(lr, g[IF Rows(g) = 1 THEN 1 ELSE r][IF Cols(g) = 1 THEN 1 ELSE c]))

RECURSIVE update_loop(_, _, _, _)
update_loop(self, gw, gb, i) ==
    IF Done(self) /\ i > Len(self.weights) THEN Result(self, None, None, NoException)
    ELSE IF ~CanBroadcastInto(gw[i], self.weights[i]) THEN Result(self, None, None, "ValueError")
    ELSE LET s1 == [self EXCEPT !.weights[i] = SubScaled(@, self.learning_rate, gw[i])]
         IN  IF ~CanBroadcastInto(gb[i], self.biases[i]) THEN Result(s1, None, None, "ValueError")
             ELSE update_loop([s1 EXCEPT !.biases[i] = SubScaled(@, self.learning_rate, gb[i])],
                              gw, gb, i + 1)

\* a variant that adds the derivative of the L2 penalty to the weight gradients
update_weights_decayed(self, gw, gb) ==
    update_loop(self,
                Vec(Len(gw), LAMBDA i : Map2(LAMBDA g, w : g + 2 * FMul(self.l2_lambda, w),
                                             gw[i], self.weights[i])),
                gb, 1)

\* lines 111-114
update_weights(self, gw, gb) == update_loop(self, gw, gb, 1)

threshold(f) ==
    Result(f.self, Map1(LAMBDA a : IF 2 * a > One THEN 1 ELSE 0, f.ret[1][Len(f.ret[1])]),
           f.rng, NoException)
predict(self, X, r) == threshold(forward(self, X, FALSE, r))

\* the locals of train when an iteration ends or raises
Locals(me, e, f, b, vl) ==
    [self |-> me, rng |-> f.rng, exc |-> e, activations |-> f.ret[1],
     dropout_masks |-> f.ret[2], grads_w |-> b.ret[1], grads_b |-> b.ret[2],
     deltas |-> b.ret[3], val_loss |-> vl]

total_loss(self, y, y_pred) ==
    AddLoss(binary_cross_entropy(y, y_pred), l2_penalty(self.weights, self.l2_lambda))

\* lines 131-135: the periodic report reads val_loss whenever X_val is given
report(self, a, ep, f, b, vl) ==
    IF ep % 100 = 0 /\ a.X_val # None /\ vl = None
    THEN Locals(self, "UnboundLocalError", f, b, vl)
    ELSE Locals(self, NoException, f, b, vl)

\* lines 127-129, with the validation loss already computed
validated(self, a, ep, f, b, v_loss) ==
    report([self EXCEPT !.val_losses = Append(@, v_loss)], a, ep, f, b, Some(v_loss))

\* lines 126-135
validation(self, a, ep, f, b, vl) ==
    IF a.X_val # None /\ a.y_val # None
    THEN validated(self, a, ep, f, b,
                   total_loss(self, a.y_val[1],
                              forward(self, a.X_val[1], FALSE, f.rng).ret[1][Len(self.weights) + 1]))
    ELSE report(self, a, ep, f, b, vl)

\* lines 123-135, after update_weights returned u
updated(a, ep, vl, f, b, u) ==
    IF u.exc # NoException THEN Locals(u.self, u.exc, f, b, vl)
    ELSE validation([u.self EXCEPT !.train_losses =
                        Append(@, total_loss(u.self, a.y, f.ret[1][Len(f.ret[1])]))],
                    a, ep, f, b, vl)

\* lines 121-135, after backward returned b
backpropagated(a, ep, vl, f, b) ==
    updated(a, ep, vl, f, b, update_weights(b.self, b.ret[1], b.ret[2]))

\* lines 120-135, after forward returned f
forwarded(a, ep, vl, f) ==
    backpropagated(a, ep, vl, f, backward(f.self, f.ret[1], a.y, f.ret[2]))

\* one iteration of train's loop, lines 119-135, with the locals it leaves
train_epoch(self, r, a, ep, vl) == forwarded(a, ep, vl, forward(self, a.X, TRUE, r))

(***************************************************************************)
(* Inputs: constructor arguments and data batches.                         *)
(***************************************************************************)
Seeds == {0, 7}
Names == {"sigmoid", "relu", "tanh"}
InputSizes == {1, 3}
WideInput == 3
HalfRate == SCALE \div 2
SeqsOver(S, n) == [1..n -> S]
HiddenLayers(h) == Vec(h, LAMBDA i : 1 + (i % 2))
Constant(n, v) == Vec(n, LAMBDA i : v)

Config(d, hidden, acts, drop, ep, l2) ==
    [input_size |-> d, hidden_layers |-> hidden, activations |-> acts,
     dropout_rates |-> drop, learning_rate |-> One, epochs |-> ep, l2_lambda |-> l2]

\* every activation list of a length around the right one, unknown names included
NewConfigs ==
    UNION { { Config(d, HiddenLayers(h), acts, None, 1, One) :
                d \in InputSizes,
                acts \in UNION { SeqsOver(Names, n) : n \in (h..(h + 2)) } } :
            h \in 0..MaxHidden }

\* a rate for every hidden layer, some of them 0; or one rate too many
DropoutChoices(h) ==
    {Some(Vec(h, LAMBDA i : IF i % 2 = 1 THEN HalfRate ELSE 0)), Some(Constant(h + 1, HalfRate))}

\* every sigmoid/relu mix on every depth, with and without dropout
PassConfigs ==
    UNION { { Config(WideInput, HiddenLayers(h), acts, drop, 1, One) :
                acts \in SeqsOver(ACTIVATIONS, h + 1),
                drop \in DropoutChoices(h) } : h \in 0..MaxHidden }

\* the script's shape of network (relu hidden layers, sigmoid output), with no
\* hidden layer and with two, without and with dropout
TrainConfigs ==
    UNION { { Config(WideInput, HiddenLayers(h), Constant(h, "relu") \o <<"sigmoid">>, drop, ep, One) :
                drop \in {None, Some(Constant(h, HalfRate))},
                ep \in {1, MaxEpochs} } : h \in {0, 2} }

\* the same networks, for two objects that differ in l2_lambda alone
TwinConfigs ==
    UNION { { Config(WideInput, HiddenLayers(h), Constant(h, "relu") \o <<"sigmoid">>, drop, ep, l2) :
                drop \in {None, Some(Constant(h, HalfRate))},
                ep \in {1, MaxEpochs},
                l2 \in {0, One} } : h \in {0, 2} }
TwinLambda == HalfRate

BatchX(n, d) == Mat(n, d, LAMBDA r, c : IF (r + c) % 2 = 0 THEN One ELSE -HalfRate)
BatchY(n) == Mat(n, 1, LAMBDA r, c : IF r % 2 = 1 THEN One ELSE 0)
ValX(d) == Mat(1, d, LAMBDA r, c : HalfRate)
ValY == <<<<One>>>>

NoCall == [op |-> "none", X |-> None, y |-> None, X_val |-> None, y_val |-> None,
           training |-> FALSE, train_len0 |-> 0, val_len0 |-> 0]

(***************************************************************************)
(* States and actions.                                                     *)
(***************************************************************************)
BlankLocals ==
    /\ exc = NoException
    /\ args = NoCall
    /\ epoch = 0
    /\ activations = None
    /\ dropout_masks = None
    /\ deltas = None
    /\ grads_w = None
    /\ grads_b = None
    /\ val_loss = None
    /\ labels = None
    /\ calls = 0

\* inside __init__, line 52 about to run
InitNew ==
    /\ \E cfg \in NewConfigs : model = NewObject(cfg)
    /\ twin = None
    /\ rng \in Seeds
    /\ pc = "new"
    /\ BlankLocals

\* after a construction that succeeded
Built(cfgs, seeds) ==
    /\ \E cfg \in cfgs, s \in seeds :
          \E made \in {initialize_network(NewObject(cfg), s)} :
              /\ made.exc = NoException
              /\ model = made.self
              /\ rng = made.rng
    /\ twin = None
    /\ pc = "idle"
    /\ BlankLocals

InitPass == Built(PassConfigs, {0})
Init == Built(TrainConfigs, {0})

\* two objects built from the same arguments but l2_lambda, with the same draws
InitTwin ==
    /\ \E cfg \in TwinConfigs, s \in Seeds :
          \E made \in {initialize_network(NewObject(cfg), s)} :
              /\ model = made.self
              /\ twin = [made.self EXCEPT !.l2_lambda = TwinLambda]
              /\ rng = made.rng
    /\ pc = "idle"
    /\ BlankLocals

New ==
    /\ pc = "new"
    /\ \E made \in {initialize_network(model, rng)} :
           /\ model' = made.self
           /\ rng' = made.rng
           /\ exc' = made.exc
           /\ pc' = IF made.exc = NoException THEN "idle" ELSE "raised"
           /\ args' = [args EXCEPT !.op = "__init__"]
    /\ UNCHANGED <<twin, epoch, activations, dropout_masks, deltas, grads_w, grads_b,
                   val_loss, labels, calls>>

Callable == pc = "idle" /\ calls < MaxCalls

CallForward ==
    /\ Callable
    /\ \E n \in 1..MaxBatch, training \in BOOLEAN :
          \E f \in {forward(model, BatchX(n, model.input_size), training, rng)} :
              /\ model' = f.self
              /\ rng' = f.rng
              /\ activations' = f.ret[1]
              /\ dropout_masks' = f.ret[2]
              /\ args' = [NoCall EXCEPT !.op = "forward", !.X = f.ret[1][1],
                                        !.training = training]
    /\ calls' = calls + 1
    /\ UNCHANGED <<twin, pc, exc, epoch, deltas, grads_w, grads_b, val_loss, labels>>

\* backward on the cache of the latest forward
CallBackward ==
    /\ Callable
    /\ activations # None
    /\ \E b \in {backward(model, activations, BatchY(Rows(activations[1])), dropout_masks)} :
          /\ model' = b.self
          /\ grads_w' = b.ret[1]
          /\ grads_b' = b.ret[2]
          /\ deltas' = b.ret[3]
          /\ args' = [NoCall EXCEPT !.op = "backward", !.y = BatchY(Rows(activations[1]))]
    /\ calls' = calls + 1
    /\ UNCHANGED <<twin, rng, pc, exc, epoch, activations, dropout_masks, val_loss, labels>>

\* update_weights with the gradients of the latest backward
CallUpdateWeights ==
    /\ Callable
    /\ grads_w # None
    /\ \E u \in {update_weights(model, grads_w, grads_b)} :
           /\ model' = u.self
           /\ exc' = u.exc
           /\ pc' = IF u.exc = NoException THEN "idle" ELSE "raised"
    /\ args' = [NoCall EXCEPT !.op = "update_weights"]
    /\ calls' = calls + 1
    /\ UNCHANGED <<twin, rng, epoch, activations, dropout_masks, deltas, grads_w, grads_b,
                   val_loss, labels>>

CallPredict ==
    /\ Callable
    /\ \E n \in 1..MaxBatch :
          \E p \in {predict(model, BatchX(n, model.input_size), rng)} :
              /\ model' = p.self
              /\ rng' = p.rng
              /\ labels' = p.ret
              /\ args' = [NoCall EXCEPT !.op = "predict", !.X = BatchX(n, model.input_size)]
    /\ calls' = calls + 1
    /\ UNCHANGED <<twin, pc, exc, epoch, activations, dropout_masks, deltas, grads_w,
                   grads_b, val_loss>>

TrainArgs(n, d, xv, yv) ==
    [NoCall EXCEPT !.op = "train", !.X = BatchX(n, d), !.y = BatchY(n),
                   !.X_val = IF xv THEN Some(ValX(d)) ELSE None,
                   !.y_val = IF yv THEN Some(ValY) ELSE None,
                   !.training = TRUE]

\* train is entered: line 117
CallTrain ==
    /\ Callable
    /\ \E n \in 1..MaxBatch, xv \in BOOLEAN, yv \in BOOLEAN :
          args' = [TrainArgs(n, model.input_size, xv, yv) EXCEPT
                      !.train_len0 = Len(model.train_losses),
                      !.val_len0 = Len(model.val_losses)]
    /\ pc' = "train"
    /\ epoch' = 0
    /\ val_loss' = None
    /\ calls' = calls + 1
    /\ UNCHANGED <<model, twin, rng, exc, activations, dropout_masks, deltas, grads_w,
                   grads_b, labels>>

\* one iteration of train's loop; the call returns after the last one
TrainEpoch ==
    /\ pc = "train"
    /\ epoch < model.epochs
    /\ \E t \in {train_epoch(model, rng, args, epoch, val_loss)} :
           /\ model' = t.self
           /\ rng' = t.rng
           /\ exc' = t.exc
           /\ activations' = t.activations
           /\ dropout_masks' = t.dropout_masks
           /\ deltas' = t.deltas
           /\ grads_w' = t.grads_w
           /\ grads_b' = t.grads_b
           /\ val_loss' = t.val_loss
           /\ pc' = IF t.exc # NoException THEN "raised"
                    ELSE IF epoch + 1 < model.epochs THEN "train" ELSE "idle"
           /\ epoch' = IF t.exc # NoException THEN epoch ELSE epoch + 1
    /\ UNCHANGED <<twin, args, labels, calls>>

\* train on both objects: the same arguments, the same draws
TwinCallTrain ==
    /\ Callable
    /\ \E n \in 1..MaxBatch, v \in BOOLEAN :
          args' = [TrainArgs(n, model.input_size, v, v) EXCEPT
                      !.train_len0 = Len(model.train_losses),
                      !.val_len0 = Len(model.val_losses)]
    /\ pc' = "train"
    /\ epoch' = 0
    /\ val_loss' = None
    /\ calls' = calls + 1
    /\ UNCHANGED <<model, twin, rng, exc, activations, dropout_masks, deltas, grads_w,
                   grads_b, labels>>

TwinTrainEpoch ==
    /\ pc = "train"
    /\ epoch < model.epochs
    /\ \E t \in {train_epoch(model, rng, args, epoch, val_loss)},
          t2 \in {train_epoch(twin, rng, args, epoch, val_loss)} :
           /\ model' = t.self
           /\ twin' = t2.self
           /\ rng' = t.rng
           /\ exc' = t.exc
           /\ activations' = t.activations
           /\ dropout_masks' = t.dropout_masks
           /\ deltas' = t.deltas
           /\ grads_w' = t.grads_w
           /\ grads_b' = t.grads_b
           /\ val_loss' = t.val_loss
           /\ pc' = IF t.exc # NoException THEN "raised"
                    ELSE IF epoch + 1 < model.epochs THEN "train" ELSE "idle"
           /\ epoch' = IF t.exc # NoException THEN epoch ELSE epoch + 1
    /\ UNCHANGED <<args, labels, calls>>

NextNew == New
NextTwin == TwinCallTrain \/ TwinTrainEpoch
NextPass == CallForward \/ CallBackward
Next == CallForward \/ CallBackward \/ CallUpdateWeights \/ CallPredict \/ CallTrain \/ TrainEpoch

SpecNew == InitNew /\ [][NextNew]_vars
SpecPass == InitPass /\ [][NextPass]_vars
Spec == Init /\ [][Next]_vars
SpecTwin == InitTwin /\ [][NextTwin]_vars

(***************************************************************************)
(* Properties.                                                             *)
(***************************************************************************)
Hidden == Len(model.hidden_layers)
Sizes == layer_sizes(model)
Unbuilt(self) ==
    /\ self.weights = <<>>
    /\ self.biases = <<>>
    /\ self.activation_funcs = <<>>
    /\ self.activation_derivatives = <<>>
IsMask(m) == \A r \in 1..Rows(m), c \in 1..Cols(m) : m[r][c] \in {0, One}
HasZero(m) == \E r \in 1..Rows(m), c \in 1..Cols(m) : m[r][c] = 0
NonZero(m) == \E r \in 1..Rows(m), c \in 1..Cols(m) : m[r][c] # 0
Shapes(ms) == Vec(Len(ms), LAMBDA i : Shape(ms[i]))
Hyperparameters(self) ==
    <<self.input_size, self.hidden_layers, self.activations, self.learning_rate,
      self.epochs, self.l2_lambda, self.dropout_rates>>

\* C1: a constructor call whose activations list does not have one entry per
\* layer ends in ValueError, raised before any weight matrix, bias vector or
\* activation function has been added to the object.
C1_CountMismatchRaisesFirst ==
    (pc # "new" /\ Len(model.activations) # Hidden + 1)
        => (pc = "raised" /\ exc = "ValueError" /\ Unbuilt(model))

\* C1 witness: a mismatched list, with an unknown name in it, was rejected.
C1_Witness ==
    /\ pc = "raised"
    /\ exc = "ValueError"
    /\ Hidden = 2
    /\ Len(model.activations) = Hidden + 2
    /\ model.activations[1] = "tanh"

\* C8: a constructor call whose activations list has the right length but holds
\* an unregistered name ends in the same kind of error as a count mismatch
\* (ValueError), with nothing added to the object, wherever the name stands.
C8_UnknownNameIsConfigurationError ==
    (/\ pc # "new"
     /\ Len(model.activations) = Hidden + 1
     /\ \E i \in 1..Len(model.activations) : model.activations[i] \notin ACTIVATIONS)
        => (pc = "raised" /\ exc = "ValueError" /\ Unbuilt(model))

\* C2: whatever the dropout_rates and the training flag, the cache forward
\* returns has no mask for the output layer and its final activation is the
\* plain output of the last activation function.
C2_NoDropoutOnOutputLayer ==
    args.op = "forward" =>
        /\ dropout_masks[Len(dropout_masks)] = None
        /\ activations[Len(activations)] =
               ApplyFn(model.activation_funcs[Hidden + 1],
                       AddRow(Dot(activations[Hidden + 1], model.weights[Hidden + 1]),
                              model.biases[Hidden + 1]))

\* C7 as claimed: the cache of a forward call on H hidden layers has H + 2
\* activations and exactly H masks.
C7_OneMaskPerHiddenLayer ==
    args.op = "forward" =>
        /\ Len(activations) = Hidden + 2
        /\ Len(dropout_masks) = Hidden

\* C7 as amended: the cache of a forward call on H hidden layers has H + 2
\* activations, the input first, and H + 1 masks, one per layer, the output
\* layer included; each is None or a 0/1 tensor shaped like its layer's output.
C7_OneMaskPerLayer ==
    args.op = "forward" =>
        /\ Len(activations) = Hidden + 2
        /\ activations[1] = args.X
        /\ Len(dropout_masks) = Hidden + 1
        /\ \A i \in 1..Len(dropout_masks) :
              \/ dropout_masks[i] = None
              \/ /\ Shape(dropout_masks[i]) = Shape(activations[i + 1])
                 /\ IsMask(dropout_masks[i])

\* C7 witness: a training-mode forward on three hidden layers recorded a mask
\* for one layer and None for another.
C7_Witness ==
    /\ args.op = "forward"
    /\ args.training
    /\ Hidden = 3
    /\ Rows(args.X) = 2
    /\ dropout_masks[1] # None
    /\ HasZero(dropout_masks[1])
    /\ dropout_masks[2] = None

\* C5: backward returns one weight gradient and one bias gradient per layer,
\* in the order of the parameters: grads_w[i] has the shape of weights[i],
\* (size[i], size[i+1]), and grads_b[i] that of biases[i], (1, size[i+1]).
C5_GradientShapes ==
    args.op = "backward" =>
        /\ Len(grads_w) = Len(model.weights)
        /\ Len(grads_b) = Len(model.biases)
        /\ \A i \in 1..Len(model.weights) :
              /\ Shape(grads_w[i]) = Shape(model.weights[i])
              /\ Shape(grads_w[i]) = <<Sizes[i], Sizes[i + 1]>>
              /\ Shape(grads_b[i]) = Shape(model.biases[i])
              /\ Shape(grads_b[i]) = <<1, Sizes[i + 1]>>

\* C5 witness: backward ran on a two-example batch through three hidden layers
\* of mixed activations (relu first, sigmoid output, a sigmoid hidden layer)
\* and produced a non-zero first-layer gradient.
C5_Witness ==
    /\ args.op = "backward"
    /\ Hidden = 3
    /\ model.activations[1] = "relu"
    /\ model.activations[Hidden + 1] = "sigmoid"
    /\ \E i \in 2..Hidden : model.activations[i] = "sigmoid"
    /\ Rows(activations[1]) = 2
    /\ NonZero(grads_w[1])

\* C3: when a train call is over, train_losses has grown by exactly epochs
\* entries, and val_losses by epochs entries if validation data was supplied
\* and by none otherwise.
C3_OneLossPerEpoch ==
    (args.op = "train" /\ pc # "train") =>
        /\ Len(model.train_losses) = args.train_len0 + model.epochs
        /\ Len(model.val_losses) =
              args.val_len0 + (IF args.X_val # None /\ args.y_val # None
                               THEN model.epochs ELSE 0)

\* C10: train never raises, whichever of X_val and y_val are supplied; with
\* exactly one of them it finishes and leaves val_losses as it was.
C10_TrainNeverRaises ==
    args.op = "train" =>
        /\ pc # "raised"
        /\ exc = NoException
        /\ ((args.X_val = None) # (args.y_val = None)) =>
               Len(model.val_losses) = args.val_len0

\* C4: forward, backward and predict leave the whole object as it was
\* (weights, biases, hyperparameters, loss histories); and no step of any
\* call changes the hyperparameters, the number of weight/bias pairs or their
\* shapes.
C4_OnlyUpdateMutates ==
    [][/\ (calls' = calls + 1 /\ args'.op \in {"forward", "backward", "predict"})
            => model' = model
       /\ Hyperparameters(model') = Hyperparameters(model)
       /\ Shapes(model'.weights) = Shapes(model.weights)
       /\ Shapes(model'.biases) = Shapes(model.biases)
       /\ model'.activation_funcs = model.activation_funcs
       /\ model'.activation_derivatives = model.activation_derivatives]_vars

\* C4 witness: a training-mode forward with dropout ran on an object whose
\* weights an earlier train call had changed.
C4_Witness ==
    /\ args.op = "forward"
    /\ args.training
    /\ Hidden = 2
    /\ dropout_masks[1] # None
    /\ model.train_losses # <<>>
    /\ NonZero(grads_w[1])

\* the cache, the deltas and the gradients in the state belong to one
\* forward/backward pair: an iteration of train has run, or backward was just
\* called on the cache
Paired ==
    \/ args.op = "backward"
    \/ args.op = "train" /\ ~(pc = "train" /\ epoch = 0)

\* C9: the masks backward consumes are those forward recorded: wherever the
\* mask recorded for a hidden layer is 0, the unit's activation was zeroed, the
\* delta propagated to the unit is 0, and the gradients of the layer feeding
\* it are those of the masked delta.
C9_NoGradientThroughDroppedUnits ==
    Paired =>
        \A i \in 1..Hidden :
            dropout_masks[i] # None =>
                /\ Shape(dropout_masks[i]) = Shape(deltas[i])
                /\ \A r \in 1..Rows(dropout_masks[i]), c \in 1..Cols(dropout_masks[i]) :
                      dropout_masks[i][r][c] = 0 =>
                          /\ activations[i + 1][r][c] = 0
                          /\ deltas[i][r][c] = 0
                /\ grads_w[i] = Dot(Transpose(activations[i]), deltas[i])
                /\ grads_b[i] = SumAxis0(deltas[i])

\* C9 witness: an iteration of train on a two-example batch dropped a unit of
\* the first hidden layer and kept another, through which a non-zero delta
\* reached the first layer's weights.
C9_Witness ==
    /\ args.op = "train"
    /\ pc = "idle"
    /\ Hidden = 2
    /\ Rows(deltas[1]) = 2
    /\ dropout_masks[1] # None
    /\ HasZero(dropout_masks[1])
    /\ NonZero(deltas[1])
    /\ NonZero(grads_w[1])

SameOrBothNaN(a, b, pa, pb) ==
    IF a = NaN \/ b = NaN THEN a = b ELSE a[1] - pa = b[1] - pb

\* C6: two objects that differ in l2_lambda alone and train on the same data
\* with the same draws have the same weights and biases after every epoch,
\* and the losses an epoch appends (the latest train loss, and the latest
\* validation loss of the current call) differ by their L2 penalties only.
C6_L2OnlyInReportedLoss ==
    /\ model.weights = twin.weights
    /\ model.biases = twin.biases
    /\ Len(model.train_losses) = Len(twin.train_losses)
    /\ Len(model.val_losses) = Len(twin.val_losses)
    /\ model.train_losses # <<>> =>
          SameOrBothNaN(model.train_losses[Len(model.train_losses)],
                        twin.train_losses[Len(twin.train_losses)],
                        l2_penalty(model.weights, model.l2_lambda),
                        l2_penalty(twin.weights, twin.l2_lambda))
    /\ (Len(model.val_losses) > args.val_len0) =>
          SameOrBothNaN(model.val_losses[Len(model.val_losses)],
                        twin.val_losses[Len(twin.val_losses)],
                        l2_penalty(model.weights, model.l2_lambda),
                        l2_penalty(twin.weights, twin.l2_lambda))

\* C6 witness: two epochs with units dropped applied non-zero gradients to
\* both objects, and their reported train and validation losses differ.
C6_Witness ==
    /\ pc = "idle"
    /\ Hidden = 2
    /\ Len(model.train_losses) >= 2
    /\ Len(model.val_losses) > args.val_len0
    /\ model.val_losses[Len(model.val_losses)] # NaN
    /\ dropout_masks[1] # None
    /\ HasZero(dropout_masks[1])
    /\ NonZero(grads_w[Hidden + 1])
    /\ model.train_losses[Len(model.train_losses)] # twin.train_losses[Len(twin.train_losses)]
    /\ model.val_losses[Len(model.val_losses)] # twin.val_losses[Len(twin.val_losses)]

====
